---------------------------- MODULE Spec2Model ----------------------------
(***************************************************************************)
(* Model of backend/app.py of "Portfolio Website with Blog": the module    *)
(* level start-up code, the route handlers behind the FastAPI route table, *)
(* the admin gate, the mock inference pipeline and the health reporter.    *)
(*                                                                         *)
(* Python values are tagged with their Python type, because the code       *)
(* decides on isinstance(); bool is a subclass of int in Python.           *)
(***************************************************************************)
EXTENDS Integers, Sequences, FiniteSets, TLC

(***************************************************************************)
(* Bounds of the model.                                                    *)
(***************************************************************************)
\* longest "data" list of a POST /predict body
MaxLen == 2
\* longest list handed to a pipeline stage on its own
MaxItems == 2

(***************************************************************************)
(* Python values as decoded from JSON.  t is the Python type name, n the   *)
(* numeric value (True is 1, False is 0), s the text of a str.  big marks  *)
(* an int above the range of a double (>= 2**1024): JSON integers are      *)
(* unbounded and Python keeps them exact.                                  *)
(***************************************************************************)
PyInt(n) == [t |-> "int", n |-> n, s |-> "", big |-> FALSE]
PyBigInt == [t |-> "int", n |-> 0, s |-> "", big |-> TRUE]
PyBool(b) == [t |-> "bool", n |-> IF b THEN 1 ELSE 0, s |-> "", big |-> FALSE]
PyStr(s) == [t |-> "str", n |-> 0, s |-> s, big |-> FALSE]
PyNone == [t |-> "NoneType", n |-> 0, s |-> "", big |-> FALSE]

\* A list element: a dict (d maps its keys to values) or any other value v.
DictItem(d) == [isdict |-> TRUE, d |-> d, v |-> PyNone]
OtherItem(v) == [isdict |-> FALSE, d |-> <<>>, v |-> v]

\* All dicts over the keys `names` with values in `values` (a key may be absent).
DictsOver(names, values) ==
    UNION {[ks -> values] : ks \in SUBSET names}

\* All lists of at most n elements of S.
ListsUpTo(S, n) == UNION {[1..k -> S] : k \in 0..n}

\* isinstance(v, (int, float)): True for int, float and, bool being a
\* subclass of int, for bool.
IsIntOrFloat(v) == v.t \in {"int", "float", "bool"}

\* v * 10 for an int or a bool: an int (True * 10 is 10); an int above the
\* double range stays above it.
Times10(v) == [t |-> "int", n |-> v.n * 10, s |-> "", big |-> v.big]

(***************************************************************************)
(* Scores.  sum(xs) / len(xs) is Python's true division; the quotient is   *)
(* kept as the reduced fraction num/den, so 0.5 is 1/2 and 150.0 is 150/1. *)
(***************************************************************************)
RECURSIVE GCD(_, _)
GCD(a, b) == IF b = 0 THEN a ELSE GCD(b, a % b)

Abs(n) == IF n < 0 THEN -n ELSE n

TrueDiv(num, den) ==
    LET g == GCD(Abs(num), den)
    IN  [num |-> num \div g, den |-> den \div g]

\* the literal 0.5
DefaultScore == [num |-> 1, den |-> 2]

RECURSIVE SumN(_, _)
SumN(d, ks) ==
    IF ks = {} THEN 0
    ELSE LET k == CHOOSE k \in ks : TRUE
         IN  d[k].n + SumN(d, ks \ {k})

(***************************************************************************)
(* MockPreprocessor.preprocess                                             *)
(***************************************************************************)
\* the dict comprehension of line 75
processed_item(d) ==
    [pk \in {"processed_" \o k : k \in DOMAIN d} |->
        LET k == CHOOSE k \in DOMAIN d : "processed_" \o k = pk
        IN  IF IsIntOrFloat(d[k]) THEN Times10(d[k]) ELSE d[k]]

MockPreprocessor_preprocess(data) ==
    [i \in 1..Len(data) |->
        IF data[i].isdict THEN DictItem(processed_item(data[i].d))
        ELSE data[i]]

(***************************************************************************)
(* MockModel.predict.  A stage result is [ok, predictions, error]: the     *)
(* returned list, or the exception that left the call.                     *)
(***************************************************************************)
OverflowError == "integer division result too large for a float"

\* keys of the values kept by the list comprehension of line 55
numeric_values(d) == {k \in DOMAIN d : IsIntOrFloat(d[k])}

\* one iteration of the loop of lines 53-61: the appended score, or the
\* exception raised by line 57
item_score(item) ==
    IF item.isdict THEN
        LET nv == numeric_values(item.d)
        IN  IF nv # {} THEN
                IF \E k \in nv : item.d[k].big
                THEN [ok |-> FALSE, score |-> DefaultScore, error |-> OverflowError]
                ELSE [ok |-> TRUE,
                      score |-> TrueDiv(SumN(item.d, nv), Cardinality(nv)),
                      error |-> ""]
            ELSE [ok |-> TRUE, score |-> DefaultScore, error |-> ""]
    ELSE [ok |-> TRUE, score |-> DefaultScore, error |-> ""]

MockModel_predict(data) ==
    IF \E i \in 1..Len(data) : ~item_score(data[i]).ok
    THEN LET i == CHOOSE i \in 1..Len(data) :
                    /\ ~item_score(data[i]).ok
                    /\ \A j \in 1..(i-1) : item_score(data[j]).ok
         IN  [ok |-> FALSE, predictions |-> <<>>, error |-> item_score(data[i]).error]
    ELSE [ok |-> TRUE,
          predictions |-> [i \in 1..Len(data) |-> item_score(data[i]).score],
          error |-> ""]

(***************************************************************************)
(* Configuration constants (lines 12-23).                                  *)
(***************************************************************************)
PROJECT_NAME == "Portfolio Website with Blog"

(***************************************************************************)
(* Requests and responses.  Every request is a record of the same shape;   *)
(* a route reads the fields it declares and ignores the others.            *)
(***************************************************************************)
Absent == [present |-> FALSE, val |-> ""]
Given(s) == [present |-> TRUE, val |-> s]

\* A request body: absent, or a JSON object that may lack "data", whose
\* "data" may not be a list, and whose list may hold non-objects.
NoBody == [present |-> FALSE, has_data |-> FALSE, is_list |-> FALSE, data |-> <<>>]
JsonBody(hasData, isList, data) ==
    [present |-> TRUE, has_data |-> hasData, is_list |-> isList, data |-> data]
DataBody(data) == JsonBody(TRUE, TRUE, data)

\* datetime.datetime: the instant a request is served
Epoch == [year |-> 1970, month |-> 1, day |-> 1, hour |-> 0, minute |-> 0,
          second |-> 0, microsecond |-> 0]

NoReq == [method |-> "", path |-> "", token |-> Absent, query_x |-> Absent,
          post_id |-> 0, slug |-> "", body |-> NoBody, now |-> Epoch]

NoResp == [status |-> 0, www_authenticate |-> "", detail |-> "", page |-> "",
           slug |-> "", post_id |-> <<>>, predictions |-> <<>>,
           status_tag |-> "", timestamp |-> <<>>, service |-> ""]

\* HTTPException(status_code, detail, headers): FastAPI's handler turns it
\* into a JSON error response of that status.
HTTPException(code, detail, challenge) ==
    [NoResp EXCEPT !.status = code, !.detail = detail,
                   !.www_authenticate = challenge]

\* RequestValidationError: a declared parameter or body is missing or
\* does not validate; FastAPI answers 422 and calls nothing.
ValidationError(loc) == [NoResp EXCEPT !.status = 422, !.detail = loc]

\* An exception no handler catches: the server answers a bare 500.
UnhandledError == [NoResp EXCEPT !.status = 500, !.detail = "Internal Server Error"]

\* What serving a request yields: the response and the functions of app.py
\* that were entered, in call order.
Outcome(r, called) == [resp |-> r, trace |-> called]

(***************************************************************************)
(* The admin gate.                                                         *)
(***************************************************************************)
\* lambda x: x.headers.get("X-Admin-Token") (line 132).  Its parameter x
\* carries no annotation and no default, so FastAPI declares it as the
\* required query parameter "x" and calls the lambda with that str; a str
\* has no attribute "headers", so the call raises AttributeError.
token_dependency(x) == [ok |-> FALSE, token |-> Absent, error |-> "AttributeError"]

\* authenticate_admin (lines 137-143); a missing header reads as None.
authenticate_admin(token, secret) ==
    IF (~token.present \/ token.val = "") \/ token.val # secret
    THEN [ok |-> FALSE,
          resp |-> HTTPException(401,
                     "Authentication failed: Invalid or missing admin token",
                     "Bearer")]
    ELSE [ok |-> TRUE, resp |-> NoResp]

admin_dashboard ==
    [NoResp EXCEPT !.status = 200, !.page = "Admin Dashboard",
                   !.status_tag = "authenticated"]

admin_posts == [NoResp EXCEPT !.status = 200, !.page = "Admin Posts"]

admin_edit_post(post_id) ==
    [NoResp EXCEPT !.status = 200, !.page = "Admin Post Editor",
                   !.post_id = <<post_id>>]

GatedPaths == {"/admin/dashboard", "/admin/posts", "/admin/posts/edit/{post_id}"}

\* the handler a gated path is registered with, and its name
gated_handler(r) ==
    CASE r.path = "/admin/dashboard" -> admin_dashboard
      [] r.path = "/admin/posts" -> admin_posts
      [] OTHER -> admin_edit_post(r.post_id)

gated_name(r) ==
    CASE r.path = "/admin/dashboard" -> "admin_dashboard"
      [] r.path = "/admin/posts" -> "admin_posts"
      [] OTHER -> "admin_edit_post"

\* A request to a route registered with dependencies=[Depends(authenticate_admin)]
\* (lines 189-202): FastAPI solves the dependencies, innermost first, and
\* calls the handler only when none failed.
gated_route(r, secret) ==
    IF ~r.query_x.present
    THEN Outcome(ValidationError("query.x: field required"), <<>>)
    ELSE LET dep == token_dependency(r.query_x.val)
         IN  IF ~dep.ok
             THEN Outcome(UnhandledError, <<"lambda">>)
             ELSE LET auth == authenticate_admin(dep.token, secret)
                  IN  IF ~auth.ok
                      THEN Outcome(auth.resp, <<"lambda", "authenticate_admin">>)
                      ELSE Outcome(gated_handler(r),
                                   <<"lambda", "authenticate_admin", gated_name(r)>>)

(***************************************************************************)
(* The health reporter.                                                    *)
(***************************************************************************)
DigitChars == <<"0", "1", "2", "3", "4", "5", "6", "7", "8", "9">>

\* n in decimal, zero-padded to w characters
Digits(n, w) == [i \in 1..w |-> DigitChars[((n \div (10 ^ (w - i))) % 10) + 1]]

\* datetime.isoformat(timespec="seconds") of an aware datetime in
\* timezone.utc: date, "T", time cut to seconds, and the UTC offset "+00:00".
isoformat_seconds(now) ==
    Digits(now.year, 4) \o <<"-">> \o Digits(now.month, 2) \o <<"-">>
    \o Digits(now.day, 2) \o <<"T">> \o Digits(now.hour, 2) \o <<":">>
    \o Digits(now.minute, 2) \o <<":">> \o Digits(now.second, 2)
    \o <<"+", "0", "0", ":", "0", "0">>

\* health_check (lines 207-217)
health_check(now) ==
    [NoResp EXCEPT !.status = 200, !.status_tag = "healthy",
                   !.timestamp = isoformat_seconds(now) \o <<"Z">>,
                   !.service = PROJECT_NAME]

(***************************************************************************)
(* The public pages (lines 147-187).                                       *)
(***************************************************************************)
PublicPages ==
    [path : {"/"}, page : {"Home"}, echo : {FALSE}] \cup
    [path : {"/about"}, page : {"About"}, echo : {FALSE}] \cup
    [path : {"/portfolio"}, page : {"Portfolio"}, echo : {FALSE}] \cup
    [path : {"/portfolio/{slug}"}, page : {"Portfolio Detail"}, echo : {TRUE}] \cup
    [path : {"/blog"}, page : {"Blog"}, echo : {FALSE}] \cup
    [path : {"/blog/{slug}"}, page : {"Blog Post Detail"}, echo : {TRUE}] \cup
    [path : {"/contact"}, page : {"Contact"}, echo : {FALSE}] \cup
    [path : {"/admin/login"}, page : {"Admin Login"}, echo : {FALSE}]

public_page(p, r) ==
    [NoResp EXCEPT !.status = 200, !.page = p.page,
                   !.slug = IF p.echo THEN r.slug ELSE ""]

(***************************************************************************)
(* POST /predict.                                                          *)
(***************************************************************************)
\* PredictionInput (lines 106-112): "data" is required and is a list of dicts
PredictionInput_valid(body) ==
    /\ body.present
    /\ body.has_data
    /\ body.is_list
    /\ \A i \in 1..Len(body.data) : body.data[i].isdict

\* predict with the preprocess stage left out
predict_skips_preprocess(model, pre, body) ==
    IF ~PredictionInput_valid(body)
    THEN Outcome(ValidationError("body.data"), <<>>)
    ELSE IF model = "None" \/ pre = "None"
    THEN Outcome(HTTPException(503, "AI models are not loaded or available.", ""),
                 <<"predict">>)
    ELSE LET result == MockModel_predict(body.data)
         IN  IF result.ok
             THEN Outcome([NoResp EXCEPT !.status = 200,
                                         !.predictions = result.predictions,
                                         !.status_tag = "success"],
                          <<"predict", "MockModel.predict">>)
             ELSE Outcome(HTTPException(500,
                            "An error occurred during AI prediction: " \o result.error,
                            ""),
                          <<"predict", "MockModel.predict">>)

\* predict with an except clause that answers an empty success
predict_swallows_failure(model, pre, body) ==
    IF ~PredictionInput_valid(body)
    THEN Outcome(ValidationError("body.data"), <<>>)
    ELSE IF model = "None" \/ pre = "None"
    THEN Outcome(HTTPException(503, "AI models are not loaded or available.", ""),
                 <<"predict">>)
    ELSE LET processed_input == MockPreprocessor_preprocess(body.data)
             result == MockModel_predict(processed_input)
         IN  Outcome([NoResp EXCEPT !.status = 200,
                                    !.predictions = result.predictions,
                                    !.status_tag = "success"],
                     <<"predict", "MockPreprocessor.preprocess", "MockModel.predict">>)

\* predict (lines 223-244), entered once the body validates
predict(model, pre, body) ==
    IF ~PredictionInput_valid(body)
    THEN Outcome(ValidationError("body.data"), <<>>)
    ELSE IF model = "None" \/ pre = "None"
    THEN Outcome(HTTPException(503, "AI models are not loaded or available.", ""),
                 <<"predict">>)
    ELSE LET processed_input == MockPreprocessor_preprocess(body.data)
             result == MockModel_predict(processed_input)
         IN  IF result.ok
             THEN Outcome([NoResp EXCEPT !.status = 200,
                                         !.predictions = result.predictions,
                                         !.status_tag = "success"],
                          <<"predict", "MockPreprocessor.preprocess", "MockModel.predict">>)
             ELSE Outcome(HTTPException(500,
                            "An error occurred during AI prediction: " \o result.error,
                            ""),
                          <<"predict", "MockPreprocessor.preprocess", "MockModel.predict">>)

\* predict_disabled declaring the body of predict
predict_disabled_validates(body) ==
    IF ~PredictionInput_valid(body)
    THEN Outcome(ValidationError("body.data"), <<>>)
    ELSE Outcome(HTTPException(403, "AI features are disabled for this service.", ""),
                 <<"predict_disabled">>)

\* predict_disabled (lines 248-255): declares no parameter, so no body is
\* read or validated
predict_disabled(body) ==
    Outcome(HTTPException(403, "AI features are disabled for this service.", ""),
            <<"predict_disabled">>)

(***************************************************************************)
(* State.                                                                  *)
(*   AI_ENABLED, ml_model, preprocessor, FAKE_ADMIN_TOKEN: the module's    *)
(*     globals;  predict_route: the handler registered for POST /predict;  *)
(*   pc: "import" and "routes" while the module body runs, "serving"       *)
(*     between requests, "responded" when a request has been answered;     *)
(*   req, resp, trace: the request being served, its response and the      *)
(*     functions entered for it (request-scoped, dropped afterwards);      *)
(*   startup: what line 18 configured and how initialization ended;        *)
(*   boot: the globals as the module body left them;                       *)
(*   earlier: whether a request has been served before this one;           *)
(*   stage: a pipeline stage applied on its own to a list.                 *)
(***************************************************************************)
VARIABLES pc, AI_ENABLED, ml_model, preprocessor, FAKE_ADMIN_TOKEN,
          predict_route, req, resp, trace, startup, boot, earlier, stage

globals == <<AI_ENABLED, ml_model, preprocessor, FAKE_ADMIN_TOKEN, predict_route>>
vars == <<pc, AI_ENABLED, ml_model, preprocessor, FAKE_ADMIN_TOKEN,
          predict_route, req, resp, trace, startup, boot, earlier, stage>>

Snapshot == [AI_ENABLED |-> AI_ENABLED, ml_model |-> ml_model,
             preprocessor |-> preprocessor,
             FAKE_ADMIN_TOKEN |-> FAKE_ADMIN_TOKEN,
             predict_route |-> predict_route]

NoStage == [pc |-> "off", data |-> <<>>, arg |-> <<>>, processed |-> <<>>,
            result |-> [ok |-> TRUE, predictions |-> <<>>, error |-> ""]]

(***************************************************************************)
(* Inputs.                                                                 *)
(***************************************************************************)
Tokens == {Absent, Given(""), Given("wrong"), Given("supersecretadmintoken")}
QueryX == {Absent, Given("1")}
PostIds == {-1, 0, 7}
Slugs == {"alpha", "beta"}
Times == [year : {2023, 2026}, month : {1, 10}, day : {6, 27},
          hour : {0, 10, 23}, minute : {0, 59}, second : {0, 7},
          microsecond : {0, 999999}]

PredictValues == {PyInt(10), PyInt(20), PyBool(TRUE), PyStr("x"), PyNone, PyBigInt}
PredictRecords ==
    {DictItem(d) : d \in DictsOver({"feature1", "feature2"}, PredictValues)}
Bodies ==
    {NoBody, JsonBody(FALSE, FALSE, <<>>), JsonBody(TRUE, FALSE, <<>>),
     DataBody(<<OtherItem(PyInt(5))>>)}
    \cup {DataBody(l) : l \in ListsUpTo(PredictRecords, MaxLen)}

StageValues == {PyInt(2), PyInt(20), PyInt(-3), PyBool(TRUE), PyBool(FALSE),
                PyStr("x"), PyNone}
StageItems ==
    {DictItem(d) : d \in DictsOver({"a", "b"}, StageValues)}
    \cup {OtherItem(PyInt(7)), OtherItem(PyStr("x"))}

(***************************************************************************)
(* The module body.                                                        *)
(***************************************************************************)
\* lines 12-23 and 82-83 have run; AI_ENABLED is the deployment's setting
Init ==
    /\ pc = "import"
    /\ AI_ENABLED \in BOOLEAN
    /\ ml_model = "None"
    /\ preprocessor = "None"
    /\ FAKE_ADMIN_TOKEN = "supersecretadmintoken"
    /\ predict_route = "unregistered"
    /\ req = NoReq
    /\ resp = NoResp
    /\ trace = <<>>
    /\ startup = [configured |-> AI_ENABLED, outcome |-> "pending"]
    /\ boot = Snapshot
    /\ earlier = FALSE
    /\ stage = NoStage

\* lines 85-102: either constructor may raise; any exception clears the flag
InitializeAI ==
    /\ pc = "import"
    /\ pc' = "routes"
    /\ IF AI_ENABLED
       THEN \E outcome \in {"ok", "model_failed", "preprocessor_failed"} :
              /\ ml_model' = IF outcome = "model_failed" THEN "None" ELSE "MockModel"
              /\ preprocessor' = IF outcome = "ok" THEN "MockPreprocessor" ELSE "None"
              /\ AI_ENABLED' = (outcome = "ok")
              /\ startup' = [startup EXCEPT !.outcome = outcome]
       ELSE /\ startup' = [startup EXCEPT !.outcome = "skipped"]
            /\ UNCHANGED <<AI_ENABLED, ml_model, preprocessor>>
    /\ UNCHANGED <<FAKE_ADMIN_TOKEN, predict_route, req, resp, trace, boot,
                   earlier, stage>>

\* lines 221-255: the flag picks the handler registered for POST /predict
RegisterRoutes ==
    /\ pc = "routes"
    /\ pc' = "serving"
    /\ predict_route' = IF AI_ENABLED THEN "predict" ELSE "predict_disabled"
    /\ boot' = [Snapshot EXCEPT !.predict_route = predict_route']
    /\ UNCHANGED <<AI_ENABLED, ml_model, preprocessor, FAKE_ADMIN_TOKEN,
                   req, resp, trace, startup, earlier, stage>>

(***************************************************************************)
(* Serving.  A handler is an "async def" without an await: it runs to its  *)
(* response in one step.                                                   *)
(***************************************************************************)
\* The route table: the handler registered for the request's path, run
\* against the globals g.
dispatch(g, r) ==
    CASE r.path \in GatedPaths -> gated_route(r, g.FAKE_ADMIN_TOKEN)
      [] r.path = "/health" -> Outcome(health_check(r.now), <<"health_check">>)
      [] r.path = "/predict" ->
            IF g.predict_route = "predict"
            THEN predict(g.ml_model, g.preprocessor, r.body)
            ELSE predict_disabled(r.body)
      [] OTHER ->
            LET p == CHOOSE p \in PublicPages : p.path = r.path
            IN  Outcome(public_page(p, r), <<p.page>>)

Respond(r, out) ==
    /\ pc' = "responded"
    /\ req' = r
    /\ resp' = out.resp
    /\ trace' = out.trace
    /\ UNCHANGED <<startup, boot, earlier, stage>>

GatedRequest ==
    /\ pc = "serving"
    /\ \E path \in GatedPaths, token \in Tokens, x \in QueryX :
        \E id \in IF path = "/admin/posts/edit/{post_id}" THEN PostIds ELSE {0} :
          LET r == [NoReq EXCEPT !.method = "GET", !.path = path, !.token = token,
                                 !.query_x = x, !.post_id = id]
          IN  Respond(r, dispatch(Snapshot, r))
    /\ UNCHANGED globals

HealthRequest ==
    /\ pc = "serving"
    /\ \E now \in Times :
          LET r == [NoReq EXCEPT !.method = "GET", !.path = "/health", !.now = now]
          IN  Respond(r, dispatch(Snapshot, r))
    /\ UNCHANGED globals

PublicRequest ==
    /\ pc = "serving"
    /\ \E p \in PublicPages :
        \E slug \in IF p.echo THEN Slugs ELSE {""} :
          LET r == [NoReq EXCEPT !.method = "GET", !.path = p.path, !.slug = slug]
          IN  Respond(r, dispatch(Snapshot, r))
    /\ UNCHANGED globals

\* predict as it would be with a handler that drops the model once a
\* prediction has failed
PredictRequest_drops_model ==
    /\ pc = "serving"
    /\ \E body \in Bodies :
          LET r == [NoReq EXCEPT !.method = "POST", !.path = "/predict", !.body = body]
              out == dispatch(Snapshot, r)
          IN  /\ Respond(r, out)
              /\ ml_model' = IF out.resp.status = 500 THEN "None" ELSE ml_model
    /\ UNCHANGED <<AI_ENABLED, preprocessor, FAKE_ADMIN_TOKEN, predict_route>>

PredictRequest ==
    /\ pc = "serving"
    /\ \E body \in Bodies :
          LET r == [NoReq EXCEPT !.method = "POST", !.path = "/predict", !.body = body]
          IN  Respond(r, dispatch(Snapshot, r))
    /\ UNCHANGED globals

\* the response is sent; nothing of the request is kept
Complete ==
    /\ pc = "responded"
    /\ pc' = "serving"
    /\ req' = NoReq
    /\ resp' = NoResp
    /\ trace' = <<>>
    /\ earlier' = TRUE
    /\ UNCHANGED <<globals, startup, boot, stage>>

Next ==
    \/ InitializeAI
    \/ RegisterRoutes
    \/ GatedRequest
    \/ HealthRequest
    \/ PublicRequest
    \/ PredictRequest
    \/ Complete

Spec == Init /\ [][Next]_vars

(***************************************************************************)
(* The pipeline stages on their own: a list is drawn, then preprocess or   *)
(* predict is applied to it, and predict to the preprocessed list.         *)
(***************************************************************************)
InitStages ==
    /\ pc = "import"
    /\ AI_ENABLED = TRUE
    /\ ml_model = "None"
    /\ preprocessor = "None"
    /\ FAKE_ADMIN_TOKEN = "supersecretadmintoken"
    /\ predict_route = "unregistered"
    /\ req = NoReq
    /\ resp = NoResp
    /\ trace = <<>>
    /\ startup = [configured |-> TRUE, outcome |-> "pending"]
    /\ boot = Snapshot
    /\ earlier = FALSE
    /\ \E data \in ListsUpTo(StageItems, MaxItems) :
          stage = [NoStage EXCEPT !.pc = "input", !.data = data]

StagePreprocess ==
    /\ stage.pc = "input"
    /\ stage' = [stage EXCEPT !.pc = "preprocessed",
                              !.processed = MockPreprocessor_preprocess(stage.data)]
    /\ UNCHANGED <<pc, globals, req, resp, trace, startup, boot, earlier>>

StagePredict ==
    /\ stage.pc \in {"input", "preprocessed"}
    /\ LET arg == IF stage.pc = "input" THEN stage.data ELSE stage.processed
       IN  stage' = [stage EXCEPT !.pc = "predicted", !.arg = arg,
                                  !.result = MockModel_predict(arg)]
    /\ UNCHANGED <<pc, globals, req, resp, trace, startup, boot, earlier>>

NextStages ==
    \/ StagePreprocess
    \/ StagePredict

SpecStages == InitStages /\ [][NextStages]_vars

(***************************************************************************)
(* Properties.                                                             *)
(***************************************************************************)
Served(path) == pc = "responded" /\ req.path = path
ServedGated == pc = "responded" /\ req.path \in GatedPaths
Entered(name) == \E i \in 1..Len(trace) : trace[i] = name
TimesEntered(name) == Cardinality({i \in 1..Len(trace) : trace[i] = name})
HandlerNames == {"admin_dashboard", "admin_posts", "admin_edit_post"}

\* a JSON number, as opposed to a string, a boolean or null
IsJsonNumber(v) == v.t \in {"int", "float"}
JsonNumberKeys(d) == {k \in DOMAIN d : IsJsonNumber(d[k])}
\* the score s is the arithmetic mean of the values of d at the keys ks
IsMeanOf(s, d, ks) == s.den > 0 /\ s.num * Cardinality(ks) = s.den * SumN(d, ks)

\* C1: on every gated route, a request whose X-Admin-Token is absent, empty
\* or different from the secret is answered 401 with a WWW-Authenticate
\* challenge and the wrapped handler is not entered, whatever post_id is.
C1_GateRejects ==
    (ServedGated /\ (~req.token.present \/ req.token.val = ""
                     \/ req.token.val # FAKE_ADMIN_TOKEN))
    => /\ resp.status = 401
       /\ resp.www_authenticate # ""
       /\ \A h \in HandlerNames : ~Entered(h)

\* C2: on every gated route, a request that carries the secret in
\* X-Admin-Token and no query parameter is answered 200 by the wrapped
\* handler: the dashboard's payload, and post_id echoed as the same integer.
C2_ValidTokenPasses ==
    (ServedGated /\ req.token = Given(FAKE_ADMIN_TOKEN) /\ ~req.query_x.present)
    => /\ resp.status = 200
       /\ req.path = "/admin/dashboard" => resp = admin_dashboard
       /\ req.path = "/admin/posts/edit/{post_id}" => resp.post_id = <<req.post_id>>

\* C3: when the feature is configured on and the initialization of the
\* model or the preprocessor failed, every POST /predict is answered 503.
C3_FailedInitIs503 ==
    (Served("/predict") /\ startup.configured
        /\ startup.outcome \in {"model_failed", "preprocessor_failed"})
    => resp.status = 503

\* C4: when AI_ENABLED is false at route registration, every POST /predict
\* is answered 403, whatever the body (absent and malformed ones included),
\* and neither pipeline stage is entered.
C4_DisabledIs403 ==
    (Served("/predict") /\ ~boot.AI_ENABLED)
    => /\ resp.status = 403
       /\ ~Entered("MockPreprocessor.preprocess")
       /\ ~Entered("MockModel.predict")

C4_Witness ==
    /\ Served("/predict")
    /\ ~boot.AI_ENABLED
    /\ ~startup.configured
    /\ req.body = JsonBody(TRUE, FALSE, <<>>)
    /\ resp.status = 403

\* the i-th record alone through preprocess and then predict
PipelineOf(rec) == MockModel_predict(MockPreprocessor_preprocess(<<rec>>))
ExampleRecord ==
    DictItem([k \in {"feature1", "feature2"} |->
                IF k = "feature1" THEN PyInt(10) ELSE PyInt(20)])
RunsPipeline ==
    /\ Served("/predict")
    /\ boot.AI_ENABLED
    /\ ml_model # "None"
    /\ preprocessor # "None"
    /\ PredictionInput_valid(req.body)
SuccessPerRecord ==
    /\ resp.status = 200
    /\ resp.status_tag = "success"
    /\ Len(resp.predictions) = Len(req.body.data)
    /\ \A i \in 1..Len(req.body.data) :
          /\ PipelineOf(req.body.data[i]).ok
          /\ resp.predictions[i] = PipelineOf(req.body.data[i]).predictions[1]
    /\ req.body.data = <<ExampleRecord>> => resp.predictions = <<[num |-> 150, den |-> 1]>>
    /\ req.body.data = <<>> => resp.predictions = <<>>

C6_PreprocessContract ==
    stage.pc = "preprocessed" =>
      /\ Len(stage.processed) = Len(stage.data)
      /\ \A i \in 1..Len(stage.data) :
          LET in == stage.data[i]
              out == stage.processed[i]
          IN  IF in.isdict
              THEN /\ out.isdict
                   /\ DOMAIN out.d = {"processed_" \o k : k \in DOMAIN in.d}
                   /\ \A k \in DOMAIN in.d :
                         out.d["processed_" \o k] =
                            IF IsJsonNumber(in.d[k])
                            THEN [in.d[k] EXCEPT !.n = @ * 10]
                            ELSE in.d[k]
              ELSE out = in

\* C7: predict scores a record with the arithmetic mean of exactly its
\* number-typed values (strings, booleans and nulls do not count) and with
\* 0.5 when it has none or is not a mapping; preprocessing does not scale
\* that default.
C7_PredictContract ==
    stage.pc = "predicted" =>
      /\ stage.result.ok
      /\ Len(stage.result.predictions) = Len(stage.arg)
      /\ \A i \in 1..Len(stage.arg) :
          LET item == stage.arg[i]
              score == stage.result.predictions[i]
          IN  IF item.isdict /\ JsonNumberKeys(item.d) # {}
              THEN IsMeanOf(score, item.d, JsonNumberKeys(item.d))
              ELSE score = DefaultScore

StageRaised ==
    /\ RunsPipeline
    /\ ~MockModel_predict(MockPreprocessor_preprocess(req.body.data)).ok
FailureIs500 ==
    StageRaised =>
      /\ resp.status = 500
      /\ resp.detail = "An error occurred during AI prediction: " \o OverflowError
NoRetry == TimesEntered("MockPreprocessor.preprocess") <= 1 /\ TimesEntered("MockModel.predict") <= 1

IsIsoSecondsZ(ts, t) ==
    /\ Len(ts) = 20
    /\ SubSeq(ts, 1, 4) = Digits(t.year, 4)
    /\ ts[5] = "-"
    /\ SubSeq(ts, 6, 7) = Digits(t.month, 2)
    /\ ts[8] = "-"
    /\ SubSeq(ts, 9, 10) = Digits(t.day, 2)
    /\ ts[11] = "T"
    /\ SubSeq(ts, 12, 13) = Digits(t.hour, 2)
    /\ ts[14] = ":"
    /\ SubSeq(ts, 15, 16) = Digits(t.minute, 2)
    /\ ts[17] = ":"
    /\ SubSeq(ts, 18, 19) = Digits(t.second, 2)
    /\ ts[20] = "Z"

\* C9: GET /health is answered 200, "healthy", the service name and the
\* current UTC time as YYYY-MM-DDTHH:MM:SSZ, with no UTC offset besides Z.
C9_HealthTimestamp ==
    Served("/health") =>
      /\ resp.status = 200
      /\ resp.status_tag = "healthy"
      /\ resp.service = PROJECT_NAME
      /\ IsIsoSecondsZ(resp.timestamp, req.now)
      /\ \A i \in 1..Len(resp.timestamp) : resp.timestamp[i] \notin {"+", "-"} \/ i \in {5, 8}

=============================================================================
